---- MODULE Spec2Model ----
(***************************************************************************)
(* Model of src/common/core.rs: `Core`, the mio handler of the event loop  *)
(* (identifier counters, the token -> context and context -> state maps,   *)
(* the dispatch entry points) and `Closure`, the call-once message.        *)
(***************************************************************************)
EXTENDS Integers, Sequences, FiniteSets, TLC

(* ------------------------------ bounds --------------------------------- *)

\* Width in bits of the identifier counters (usize in the source).
W == 2
\* Deepest nesting of capability / payload invocations on the loop thread.
MaxDepth == 2
\* Events the reactor delivers in a run whose delivery order is recorded.
MaxEvents == 3
\* Calls of one envelope's boxed FnMut in a run that calls it repeatedly.
MaxCalls == 3
\* Shared borrows of one cell that holders of its handle keep at a time.
MaxBorrows == 2

Modulus == 2 ^ W
MaxValue == Modulus - 1

\* Inputs the operations are driven with.
Tokens == {0, 1}
Contexts == {0, 1}
StateIds == {"S1", "S2"}
Envs == {"e1", "e2"}
Threads == {"t1", "t2"}
EventSets == {"readable", "writable"}
Seeds == {0, 1, MaxValue}

\* Option<T>: None, or Some(x).
None == <<>>
Some(x) == <<x>>
Unwrap(o) == o[1]

\* What a call returned: an Option<Context>, an Option<Rc<RefCell<State>>>, or
\* neither of them.
ReturnContext(c) == [context |-> c, state |-> None]
ReturnState(st) == [context |-> None, state |-> st]
Unit == [context |-> None, state |-> None]

(* ------------------------------- state --------------------------------- *)

VARIABLES
    token_counter,      \* Core.token_counter
    context_counter,    \* Core.context_counter
    contexts,           \* Core.contexts : HashMap<Token, Context>
    states,             \* Core.states   : HashMap<Context, Rc<RefCell<State>>>
    stack,              \* loop thread: states whose capability runs / envelopes whose payload runs, outermost first
    panicked,           \* the loop thread has panicked
    held,               \* each state's RefCell borrow flag, as far as holders of the handle set it: the number of Refs kept, WRITING for a RefMut kept
    invoked,            \* capability invocations started by the last step
    missed,             \* Option: the dispatch call of the last step, when it resolved to no state
    channel,            \* the reactor's cross-thread delivery channel (FIFO of envelopes)
    at,                 \* where each envelope is: unbuilt, held by a thread, channel, invoking, dropped
    holder,             \* each envelope's captured Option<F>: "Some" until taken
    ran,                \* how many times each envelope's payload has executed
    called,             \* how many times each envelope's boxed FnMut was called
    seed,               \* argument of with_context_counter
    tokCalls,           \* calls of get_new_token so far (CallCap: that many or more)
    ctxCalls,           \* calls of get_new_context so far (CallCap: that many or more)
    tokLast,            \* Option: value returned by the last get_new_token
    ctxLast,            \* Option: value returned by the last get_new_context
    tokIssued,          \* values get_new_token has returned
    ret,                \* what the registry operation or lookup of the last step returned
    dlog,               \* events the reactor has delivered, with what each resolved to
    slog,               \* invocations / payload executions the dispatcher started for them
    ctxLive             \* Option: the state that was bound to the context get_new_context returned, when it returned it

core == <<token_counter, context_counter, contexts, states>>
counters == <<token_counter, context_counter>>
maps == <<contexts, states>>
loop == <<stack, panicked, held>>
envelopes == <<channel, at, holder, ran, called>>
observed == <<invoked, missed>>
history == <<seed, tokCalls, ctxCalls, tokLast, ctxLast, tokIssued>>
logs == <<dlog, slog, ctxLive>>
vars == <<token_counter, context_counter, contexts, states, stack, panicked, held,
          invoked, missed, channel, at, holder, ran, called, seed, tokCalls, ctxCalls,
          tokLast, ctxLast, tokIssued, ret, dlog, slog, ctxLive>>

(* --------------------------- HashMap, usize ---------------------------- *)

EmptyMap == [x \in {} |-> 0]
MapInsert(m, k, v) == [x \in (DOMAIN m) \cup {k} |-> IF x = k THEN v ELSE m[x]]
MapRemove(m, k) == [x \in (DOMAIN m) \ {k} |-> m[x]]
MapGet(m, k) == IF k \in DOMAIN m THEN Some(m[k]) ELSE None

\* Mutant of wrapping_add: the sum stops at the largest value.
saturating_add(x, y) == IF x + y > MaxValue THEN MaxValue ELSE x + y

wrapping_add(x, y) == (x + y) % Modulus

(* ---------------------------- construction ----------------------------- *)

\* Mutant of with_context_counter: the seed initialises both counters.
with_both_counters(s) ==
    [token_counter |-> s, context_counter |-> s,
     contexts |-> EmptyMap, states |-> EmptyMap]

with_context_counter(s) ==
    [token_counter |-> 0, context_counter |-> s,
     contexts |-> EmptyMap, states |-> EmptyMap]

new == with_context_counter(0)

(* ------------------------------ lookups -------------------------------- *)

get_context(token) == MapGet(contexts, token)
get_state(context) == MapGet(states, context)

\* self.get_context(token).and_then(|c| self.get_state(c))
Resolve(token) ==
    IF get_context(token) = None THEN None
    ELSE get_state(Unwrap(get_context(token)))

\* States a capability of which is running: the dispatcher holds the RefMut.
Running == {stack[i] : i \in DOMAIN stack} \cap StateIds

\* RefCell's borrow flag: UNUSED, a positive count of shared borrows, WRITING.
UNUSED == 0
WRITING == -1

\* States whose RefCell is borrowed: by the dispatcher, for the capability that
\* runs, or by a holder of the handle.
Borrowed == Running \cup {st \in StateIds : held[st] # UNUSED}

\* A panic unwinds the loop thread: every invocation is abandoned, the borrows
\* its frames hold are released and the envelopes being invoked are dropped.
Unwind ==
    /\ panicked' = TRUE
    /\ stack' = <<>>
    /\ held' = [st \in StateIds |-> UNUSED]
    /\ at' = [e \in Envs |-> IF at[e] = "invoking" THEN "dropped" ELSE at[e]]

Invocation(state, cap, token, events) ==
    [state |-> state, cap |-> cap, token |-> token, events |-> events]

(* ------------------------- identifier counters ------------------------- *)

\* Mutant of get_new_token_result: the value after the increment is returned.
get_new_token_incremented == (token_counter + 1) % Modulus

get_new_token_result == token_counter
get_new_context_result == context_counter

\* The call counts are exact below CallCap: one full cycle of the counter and a call more.
CallCap == Modulus + 2
Saturate(n) == IF n < CallCap THEN n + 1 ELSE n

\* A step that is no dispatch.
Quiet == invoked' = <<>> /\ missed' = None

get_new_token ==
    /\ ~panicked
    /\ token_counter' = wrapping_add(token_counter, 1)
    /\ tokCalls' = Saturate(tokCalls)
    /\ tokLast' = Some(get_new_token_result)
    /\ tokIssued' = tokIssued \cup {get_new_token_result}
    /\ Quiet
    /\ UNCHANGED <<context_counter, maps, loop, envelopes, seed, ctxCalls, ctxLast, logs>>
    /\ ret' = Unit

\* Mutant of get_new_context: a context that is bound to a state is skipped.
get_new_context_skip_bound ==
    /\ ~panicked
    /\ context_counter' =
          IF get_state(context_counter) = None THEN wrapping_add(context_counter, 1)
          ELSE wrapping_add(context_counter, 2)
    /\ ctxCalls' = Saturate(ctxCalls)
    /\ ctxLast' =
          IF get_state(context_counter) = None THEN Some(context_counter)
          ELSE Some(wrapping_add(context_counter, 1))
    /\ Quiet
    /\ ret' = Unit
    /\ UNCHANGED <<token_counter, maps, loop, envelopes, seed, tokCalls, tokLast, tokIssued>>

\* Mutant of get_new_context: both identifier streams draw on one counter.
get_new_context_shared ==
    /\ ~panicked
    /\ context_counter' = wrapping_add(context_counter, 1)
    /\ token_counter' = wrapping_add(token_counter, 1)
    /\ ctxCalls' = Saturate(ctxCalls)
    /\ ctxLast' = Some(get_new_context_result)
    /\ Quiet
    /\ ret' = Unit
    /\ UNCHANGED <<maps, loop, envelopes, seed, tokCalls, tokLast, tokIssued>>

get_new_context ==
    /\ ~panicked
    /\ context_counter' = wrapping_add(context_counter, 1)
    /\ ctxCalls' = Saturate(ctxCalls)
    /\ ctxLast' = Some(get_new_context_result)
    /\ Quiet
    /\ UNCHANGED <<token_counter, maps, loop, envelopes, seed, tokCalls, tokLast, tokIssued>>
    /\ ret' = Unit

\* get_new_context as its caller sees it: the context it returns, and the
\* state that context is bound to at that moment.
generate_context ==
    /\ get_new_context
    /\ ctxLive' = get_state(get_new_context_result)
    /\ UNCHANGED <<dlog, slog>>

(* ------------------------------ registry ------------------------------- *)

\* Mutant of remove_context_result: the key is returned, not the value.
remove_context_key(token) == IF get_context(token) = None THEN None ELSE Some(token)

insert_context_result(token) == get_context(token)
insert_state_result(context) == get_state(context)
remove_context_result(token) == get_context(token)
remove_state_result(context) == get_state(context)

\* Mutant of insert_context: an entry that exists is kept (entry().or_insert()).
insert_context_or_insert(token, context) ==
    /\ ~panicked
    /\ contexts' = IF token \in DOMAIN contexts THEN contexts
                   ELSE MapInsert(contexts, token, context)
    /\ ret' = ReturnContext(insert_context_result(token))
    /\ Quiet
    /\ UNCHANGED <<counters, states, loop, envelopes, history, logs>>

insert_context(token, context) ==
    /\ ~panicked
    /\ contexts' = MapInsert(contexts, token, context)
    /\ ret' = ReturnContext(insert_context_result(token))
    /\ Quiet
    /\ UNCHANGED <<counters, states, loop, envelopes, history, logs>>

insert_state(context, state) ==
    /\ ~panicked
    /\ states' = MapInsert(states, context, state)
    /\ ret' = ReturnState(insert_state_result(context))
    /\ Quiet
    /\ UNCHANGED <<counters, contexts, loop, envelopes, history, logs>>

remove_context(token) ==
    /\ ~panicked
    /\ contexts' = MapRemove(contexts, token)
    /\ ret' = ReturnContext(remove_context_result(token))
    /\ Quiet
    /\ UNCHANGED <<counters, states, loop, envelopes, history, logs>>

\* Mutant of remove_state: the removed handle's cell is taken out of its Rc,
\* which panics while the dispatcher holds a clone of it.
remove_state_try_unwrap(context) ==
    /\ ~panicked
    /\ IF get_state(context) # None /\ Unwrap(get_state(context)) \in Borrowed
       THEN /\ Unwind
            /\ ret' = Unit
       ELSE /\ ret' = ReturnState(remove_state_result(context))
            /\ UNCHANGED <<loop, at>>
    /\ states' = MapRemove(states, context)
    /\ Quiet
    /\ UNCHANGED <<counters, contexts, channel, holder, ran, called, history, logs>>

\* Mutant of remove_state: the entry is expected to exist, absence panics.
remove_state_expect(context) ==
    /\ ~panicked
    /\ IF get_state(context) = None
       THEN /\ Unwind
            /\ states' = states
            /\ ret' = Unit
       ELSE /\ states' = MapRemove(states, context)
            /\ ret' = ReturnState(remove_state_result(context))
            /\ UNCHANGED <<loop, at>>
    /\ Quiet
    /\ UNCHANGED <<counters, contexts, channel, holder, ran, called, history, logs>>

\* Mutant of remove_state: the token entries bound to the context go with it.
remove_state_cascade(context) ==
    /\ ~panicked
    /\ states' = MapRemove(states, context)
    /\ contexts' = [t \in {u \in DOMAIN contexts : contexts[u] # context} |-> contexts[t]]
    /\ ret' = ReturnState(remove_state_result(context))
    /\ Quiet
    /\ UNCHANGED <<counters, loop, envelopes, history, logs>>

remove_state(context) ==
    /\ ~panicked
    /\ states' = MapRemove(states, context)
    /\ ret' = ReturnState(remove_state_result(context))
    /\ Quiet
    /\ UNCHANGED <<counters, contexts, loop, envelopes, history, logs>>

\* The two lookups as calls of their own: &self, nothing changes.
call_get_context(token) ==
    /\ ~panicked
    /\ ret' = ReturnContext(get_context(token))
    /\ Quiet
    /\ UNCHANGED <<core, loop, envelopes, history, logs>>

call_get_state(context) ==
    /\ ~panicked
    /\ ret' = ReturnState(get_state(context))
    /\ Quiet
    /\ UNCHANGED <<core, loop, envelopes, history, logs>>

(* ------------------------------ handles -------------------------------- *)

\* RefCell::try_borrow_mut / try_borrow fail: a mutable borrow needs the cell
\* unused, a shared one needs it not mutably borrowed.
Conflict(st, mutable) ==
    \/ st \in Running
    \/ IF mutable THEN held[st] # UNUSED ELSE held[st] = WRITING

\* Whoever has a handle of a state (a clone of the Rc<RefCell<State>> that was
\* given to insert_state, or one a registry call returned) borrows its cell,
\* borrow_mut() when mutable and borrow() otherwise, and keeps the Ref / RefMut.
\* The borrow panics ("already borrowed" / "already mutably borrowed") when it
\* conflicts with a borrow in force, the dispatcher's for a running capability
\* or a holder's, and the panic unwinds the thread.
hold(st, mutable) ==
    /\ ~panicked
    /\ IF Conflict(st, mutable)
       THEN /\ Unwind
       ELSE /\ mutable \/ held[st] < MaxBorrows
            /\ held' = [held EXCEPT ![st] = IF mutable THEN WRITING ELSE @ + 1]
            /\ UNCHANGED <<stack, panicked, at>>
    /\ Quiet
    /\ ret' = Unit
    /\ UNCHANGED <<core, channel, holder, ran, called, history, logs>>

\* A holder drops one Ref / RefMut it kept: the RefMut leaves the cell unused,
\* a Ref leaves it to the other shared borrows.
release(st) ==
    /\ ~panicked
    /\ held[st] # UNUSED
    /\ held' = [held EXCEPT ![st] = IF @ = WRITING THEN UNUSED ELSE @ - 1]
    /\ Quiet
    /\ ret' = Unit
    /\ UNCHANGED <<core, stack, panicked, envelopes, history, logs>>

(* ------------------------------ dispatch ------------------------------- *)

\* `state.borrow_mut().<cap>(self, ...)` on a resolved handle: borrow_mut panics
\* (BorrowMutError) when the cell is already borrowed, otherwise the capability
\* starts running on the loop thread.
InvokeCapability(state, cap, token, events) ==
    IF state \in Borrowed
    THEN /\ Unwind
         /\ Quiet
    ELSE /\ Len(stack) < MaxDepth
         /\ UNCHANGED <<panicked, held, at>>
         /\ stack' = Append(stack, state)
         /\ invoked' = <<Invocation(state, cap, token, events)>>
         /\ missed' = None

\* `None => ()`: the lookup found no state.
Miss(op, arg) ==
    /\ invoked' = <<>>
    /\ missed' = Some([op |-> op, arg |-> arg])
    /\ UNCHANGED <<loop, at>>

ready(token, events) ==
    /\ ~panicked
    /\ IF Resolve(token) = None
       THEN Miss("ready", token)
       ELSE InvokeCapability(Unwrap(Resolve(token)), "ready", Some(token), Some(events))
    /\ UNCHANGED <<core, channel, holder, ran, called, history>>
    /\ ret' = Unit

\* Mutant of timeout: the lookup is unwrapped, a miss panics.
timeout_unwrap(token) ==
    /\ ~panicked
    /\ IF Resolve(token) = None
       THEN /\ Unwind
            /\ Quiet
       ELSE /\ Len(stack) < MaxDepth
            /\ Unwrap(Resolve(token)) \notin Borrowed
            /\ UNCHANGED <<panicked, held, at>>
            /\ stack' = Append(stack, Unwrap(Resolve(token)))
            /\ invoked' = <<Invocation(Unwrap(Resolve(token)), "timeout", Some(token), None)>>
            /\ missed' = None
    /\ UNCHANGED <<core, channel, holder, ran, called, history>>
    /\ ret' = Unit

timeout(token) ==
    /\ ~panicked
    /\ IF Resolve(token) = None
       THEN Miss("timeout", token)
       ELSE InvokeCapability(Unwrap(Resolve(token)), "timeout", Some(token), None)
    /\ UNCHANGED <<core, channel, holder, ran, called, history>>
    /\ ret' = Unit

terminate_state(context) ==
    /\ ~panicked
    /\ IF get_state(context) = None
       THEN Miss("terminate", context)
       ELSE InvokeCapability(Unwrap(get_state(context)), "terminate", None, None)
    /\ UNCHANGED <<core, channel, holder, ran, called, history, logs>>
    /\ ret' = Unit

(* ------------------------------ Closure -------------------------------- *)

\* Closure::new(f) on an external thread: the holder captures Some(f).
Closure_new(th, e) ==
    /\ at[e] = "unbuilt"
    /\ at' = [at EXCEPT ![e] = th]
    /\ holder' = [holder EXCEPT ![e] = "Some"]
    /\ Quiet
    /\ UNCHANGED <<core, loop, channel, ran, called, history, logs>>
    /\ ret' = Unit

\* The thread hands its envelope to the reactor's channel.
send(th, e) ==
    /\ at[e] = th
    /\ at' = [at EXCEPT ![e] = "channel"]
    /\ channel' = Append(channel, e)
    /\ Quiet
    /\ UNCHANGED <<core, loop, holder, ran, called, history, logs>>
    /\ ret' = Unit

\* Mutant of call_mut: the payload is read out of the holder, not taken.
call_mut_keep(e) ==
    /\ called' = [called EXCEPT ![e] = @ + 1]
    /\ IF holder[e] = "Some"
       THEN /\ Len(stack) < MaxDepth
            /\ holder' = holder
            /\ ran' = [ran EXCEPT ![e] = @ + 1]
            /\ stack' = Append(stack, e)
       ELSE UNCHANGED <<holder, ran, stack>>

\* One call of the boxed FnMut: `if let Some(f) = f.take() { f(a0, a1) }`.
call_mut(e) ==
    /\ called' = [called EXCEPT ![e] = @ + 1]
    /\ IF holder[e] = "Some"
       THEN /\ Len(stack) < MaxDepth
            /\ holder' = [holder EXCEPT ![e] = "None"]
            /\ ran' = [ran EXCEPT ![e] = @ + 1]
            /\ stack' = Append(stack, e)
       ELSE UNCHANGED <<holder, ran, stack>>

\* Mutant of invoke: self is dropped without the box being called.
invoke_dropped(e) ==
    /\ UNCHANGED <<holder, ran, called, stack>>
    /\ at' = [at EXCEPT ![e] = "dropped"]

\* invoke(mut self, ..): one call of the box; self is dropped when it returns.
invoke(e) ==
    /\ call_mut(e)
    /\ at' = [at EXCEPT ![e] = IF holder[e] = "Some" THEN "invoking" ELSE "dropped"]

\* Handler::notify: no registry lookup, the message is invoked.
notify(msg) ==
    /\ ~panicked
    /\ invoke(msg)
    /\ Quiet
    /\ UNCHANGED <<core, panicked, held, history>>
    /\ ret' = Unit

\* Handler::notify called in place, by whatever runs on the loop thread, with
\* an envelope that was built and not handed to the channel.
notify_direct(e) ==
    /\ at[e] \in Threads
    /\ notify(e)
    /\ channel' = channel

\* The boxed FnMut of an envelope that was invoked is called once more: the
\* repeatable-call interface the envelope sits on allows it.
call_again(e) ==
    /\ ~panicked
    /\ called[e] >= 1
    /\ called[e] < MaxCalls
    /\ e \notin {stack[i] : i \in DOMAIN stack}
    /\ call_mut(e)
    /\ Quiet
    /\ UNCHANGED <<core, panicked, held, channel, at, history, logs>>
    /\ ret' = Unit

\* The running capability or payload returns to its caller; an envelope whose
\* payload returns is dropped by invoke.
Return ==
    /\ ~panicked
    /\ stack # <<>>
    /\ stack' = SubSeq(stack, 1, Len(stack) - 1)
    /\ at' = [e \in Envs |->
                IF e = stack[Len(stack)] /\ at[e] = "invoking" THEN "dropped" ELSE at[e]]
    /\ Quiet
    /\ UNCHANGED <<core, panicked, held, channel, holder, ran, called, history, logs>>
    /\ ret' = Unit

(* ------------------------------ reactor -------------------------------- *)

\* The reactor calls the handler from its poll loop: nothing of the core is running.
Idle == stack = <<>>

reactor_ready(token, events) == Idle /\ ready(token, events)
reactor_timeout(token) == Idle /\ timeout(token)
reactor_notify ==
    /\ Idle
    /\ channel # <<>>
    /\ notify(Head(channel))
    /\ channel' = Tail(channel)

\* What the reactor delivered, as the dispatcher has to answer it: the
\* capability (or payload), its arguments, and what the registry resolved the
\* event to when it was delivered.
Delivered(kind, token, events, target) ==
    [kind |-> kind, token |-> token, events |-> events, target |-> target]

deliver_ready(token, events) ==
    /\ Len(dlog) < MaxEvents
    /\ reactor_ready(token, events)
    /\ dlog' = Append(dlog, Delivered("ready", Some(token), Some(events), Resolve(token)))
    /\ slog' = slog \o invoked'
    /\ UNCHANGED ctxLive

deliver_timeout(token) ==
    /\ Len(dlog) < MaxEvents
    /\ reactor_timeout(token)
    /\ dlog' = Append(dlog, Delivered("timeout", Some(token), None, Resolve(token)))
    /\ slog' = slog \o invoked'
    /\ UNCHANGED ctxLive

deliver_notify ==
    /\ Len(dlog) < MaxEvents
    /\ reactor_notify
    /\ dlog' = Append(dlog, Delivered("payload", None, None, Some(Head(channel))))
    /\ slog' = slog \o (IF ran' # ran
                        THEN <<Invocation(Head(channel), "payload", None, None)>>
                        ELSE <<>>)
    /\ UNCHANGED ctxLive

(* ---------------------------- specifications --------------------------- *)

InitCore(s) ==
    /\ token_counter = with_context_counter(s).token_counter
    /\ context_counter = with_context_counter(s).context_counter
    /\ contexts = with_context_counter(s).contexts
    /\ states = with_context_counter(s).states
    /\ seed = s

Init ==
    /\ \E s \in Seeds : InitCore(s)
    /\ stack = <<>>
    /\ panicked = FALSE
    /\ held = [st \in StateIds |-> UNUSED]
    /\ invoked = <<>>
    /\ missed = None
    /\ channel = <<>>
    /\ at = [e \in Envs |-> "unbuilt"]
    /\ holder = [e \in Envs |-> "None"]
    /\ ran = [e \in Envs |-> 0]
    /\ called = [e \in Envs |-> 0]
    /\ tokCalls = 0
    /\ ctxCalls = 0
    /\ tokLast = None
    /\ ctxLast = None
    /\ tokIssued = {}
    /\ ret = Unit
    /\ dlog = <<>>
    /\ slog = <<>>
    /\ ctxLive = None

\* Registry operations, called by whatever runs on the loop thread.
Registry(T, C, S) ==
    \/ \E t \in T, c \in C : insert_context(t, c)
    \/ \E c \in C, s \in S : insert_state(c, s)
    \/ \E t \in T : remove_context(t)
    \/ \E c \in C : remove_state(c)
    \/ \E t \in T : call_get_context(t)
    \/ \E c \in C : call_get_state(c)

\* Dispatch entry points, from the reactor or nested in a running capability.
Dispatch(T, C) ==
    \/ \E t \in T, ev \in EventSets : ready(t, ev) /\ UNCHANGED logs
    \/ \E t \in T : timeout(t) /\ UNCHANGED logs
    \/ \E c \in C : terminate_state(c)

Generators ==
    \/ get_new_token
    \/ get_new_context /\ UNCHANGED logs

\* External threads build envelopes and hand them to the channel.
External(E) ==
    \/ \E th \in Threads, e \in E : Closure_new(th, e)
    \/ \E th \in Threads, e \in E : send(th, e)

Channel(E) ==
    \/ External(E)
    \/ reactor_notify /\ UNCHANGED logs

\* Envelopes passed to notify in place.
Direct(E) == \E e \in E : notify_direct(e) /\ UNCHANGED logs

\* Holders of handles borrow their cells and drop the borrows.
Holders(S, K) ==
    \/ \E st \in S, mutable \in K : hold(st, mutable)
    \/ \E st \in S : release(st)

\* The whole core, every operation interleaved, over one token, one context,
\* one state and one envelope.
Next ==
    \/ Registry({0}, {0}, {"S1"})
    \/ Dispatch({0}, {0})
    \/ Generators
    \/ Channel({"e1"})
    \/ Direct({"e1"})
    \/ Holders({"S1"}, BOOLEAN)
    \/ Return

Spec == Init /\ [][Next]_vars

\* The dispatcher and the registry, over two tokens, two contexts and two states.
NextDispatch ==
    \/ Registry(Tokens, Contexts, StateIds)
    \/ Dispatch(Tokens, Contexts)
    \/ Holders(StateIds, BOOLEAN)
    \/ Return

SpecDispatch == Init /\ [][NextDispatch]_vars

\* The dispatcher and the registry alone: every borrow of a cell is the
\* dispatcher's own, taken for the capability it runs.
NextReentry ==
    \/ Registry(Tokens, Contexts, StateIds)
    \/ Dispatch(Tokens, Contexts)
    \/ Return

SpecReentry == Init /\ [][NextReentry]_vars

\* The identifier generators and the registry, over one token, one context
\* and two states.
NextIdentifiers ==
    \/ get_new_token
    \/ generate_context
    \/ Registry({0}, {0}, StateIds)

SpecIdentifiers == Init /\ [][NextIdentifiers]_vars

(* ------------------------------- claims -------------------------------- *)

\* The state a dispatch on token t resolves to.
Target(t) == Unwrap(Resolve(t))
\* C1: a dispatch on a token that resolves, through its context, to a state S
\* invokes exactly one capability: ready(t, ev) invokes S.ready once with that
\* token and event mask, timeout(t) invokes S.timeout once with that token,
\* and no capability of another state is invoked. It fails: when S's cell is
\* borrowed (a capability of S is running and dispatches to t again) the
\* dispatcher panics in borrow_mut and invokes nothing.
C1_ResolvedDispatch ==
    [][\A t \in Tokens :
         Resolve(t) # None =>
            /\ \A ev \in EventSets :
                 ready(t, ev) =>
                    invoked' = <<Invocation(Target(t), "ready", Some(t), Some(ev))>>
            /\ timeout(t) =>
                    invoked' = <<Invocation(Target(t), "timeout", Some(t), None)>>]_vars

\* C2: a dispatch that resolves to no state (token without context, or context
\* without state) and a terminate_state on a context without state invoke
\* nothing, raise no fault and leave the maps, the counters, the running
\* invocations and the envelopes as they were.
C2_UnresolvedNoOp ==
    [][/\ \A t \in Tokens :
            (Resolve(t) = None /\ ((\E ev \in EventSets : ready(t, ev)) \/ timeout(t))) =>
               /\ invoked' = <<>>
               /\ UNCHANGED <<core, loop, envelopes, history>>
       /\ \A c \in Contexts :
            (get_state(c) = None /\ terminate_state(c)) =>
               /\ invoked' = <<>>
               /\ UNCHANGED <<core, loop, envelopes, history>>]_vars

\* A timeout on token 0, bound to a context that has no state, was dropped
\* while another state's capability was running.
C2_Witness ==
    /\ missed = Some([op |-> "timeout", arg |-> 0])
    /\ get_context(0) # None
    /\ Resolve(0) = None
    /\ stack # <<>>
    /\ ~panicked

\* C4: terminate_state(c) on a context bound to S invokes S.terminate exactly
\* once and leaves the maps and the counters as they are (c still resolves to
\* S); the return of a capability changes no map or counter either, so a
\* terminate capability that performs no registry operation leaves the
\* registry as it was. It fails: when S's cell is borrowed (S.terminate is
\* running and terminates c again) terminate_state panics in borrow_mut and
\* invokes nothing.
C4_TerminateKeepsRegistry ==
    [][/\ \A c \in Contexts :
            (get_state(c) # None /\ terminate_state(c)) =>
               /\ invoked' = <<Invocation(Unwrap(get_state(c)), "terminate", None, None)>>
               /\ UNCHANGED core
               /\ get_state(c)' = get_state(c)
       /\ Return => UNCHANGED core]_vars

\* C5: while a capability of a state is executing on the loop thread, a call
\* it makes into a registry operation, into terminate_state(c) (its own
\* context included) or into a dispatch entry point completes without the
\* core faulting. It fails: a nested terminate_state or dispatch that resolves
\* to the state that is executing panics in borrow_mut.
C5_ReentrancyNoFault ==
    [][(Running # {} /\ (Registry(Tokens, Contexts, StateIds) \/ Dispatch(Tokens, Contexts)))
          => ~panicked']_vars

\* C6 as claimed: the first identifier of either counter is the seed.
C6_BothStartAtSeed ==
    /\ tokCalls = 1 => tokLast = Some(seed)
    /\ ctxCalls = 1 => ctxLast = Some(seed)

\* C6, amended: after construction with seed s the first get_new_context
\* returns s, the first get_new_token returns 0 whatever s is, and each later
\* call on either counter returns one more than that counter's previous
\* result, 0 after the largest value.
C6_CountersStart ==
    /\ [](tokCalls = 1 => tokLast = Some(0))
    /\ [](ctxCalls = 1 => ctxLast = Some(seed))
    /\ [][(get_new_token /\ tokLast # None) =>
             tokLast' = Some((Unwrap(tokLast) + 1) % Modulus)]_vars
    /\ [][(get_new_context /\ ctxLast # None) =>
             ctxLast' = Some((Unwrap(ctxLast) + 1) % Modulus)]_vars

\* Seed 1: the first token is 0 and the second context is 2.
C6_Witness ==
    /\ seed = 1
    /\ tokCalls = 1
    /\ tokLast = Some(0)
    /\ ctxCalls = 2
    /\ ctxLast = Some(2)

\* C7: the k-th get_new_context after with_context_counter(s) returns
\* (s + k - 1) mod 2^W whatever was interleaved, and the call never faults:
\* at 2^W - 1 it returns 2^W - 1 and the next call returns 0.
C7_SeededSequence ==
    /\ []((ctxCalls >= 1 /\ ctxCalls < CallCap) =>
             ctxLast = Some((seed + ctxCalls - 1) % Modulus))
    /\ [][get_new_context => (~panicked' /\ UNCHANGED stack)]_vars

\* Seeded at the largest value, the second context is 0; registry operations,
\* a dispatch and an envelope were interleaved.
C7_Witness ==
    /\ seed = MaxValue
    /\ ctxCalls = 2
    /\ ctxLast = Some(0)
    /\ context_counter = 1
    /\ get_context(0) # None
    /\ stack # <<>>
    /\ at["e1"] = "channel"
    /\ ~panicked

\* C8: up to its 2^W-th call, get_new_token returns a value no earlier call
\* returned and greater than the previous call's, whatever was interleaved.
C8_TokensDistinct ==
    [][(get_new_token /\ tokCalls' <= Modulus) =>
          /\ Unwrap(tokLast') \notin tokIssued
          /\ tokLast # None => Unwrap(tokLast') > Unwrap(tokLast)]_vars

\* All 2^W tokens were issued, each once, from a core seeded with a non-zero
\* context seed, with a state bound meanwhile.
C8_Witness ==
    /\ tokCalls = Modulus
    /\ tokLast = Some(MaxValue)
    /\ Cardinality(tokIssued) = Modulus
    /\ seed = MaxValue
    /\ get_state(0) # None

(* ----------------- specifications of the loop and envelopes ------------- *)

InitLoop == Init /\ seed = 0

\* Calls of the handler nested in a running capability or payload.
Nested(T, C, E) == ~Idle /\ (Dispatch(T, C) \/ Direct(E))

\* The envelope alone: built, handed over, invoked, and its box called again.
NextClosure ==
    \/ Channel(Envs)
    \/ \E e \in Envs : call_again(e)
    \/ Registry({0}, {0}, {"S1"})
    \/ Direct(Envs)
    \/ Return

SpecClosure == InitLoop /\ [][NextClosure]_vars

\* The reactor delivers MaxEvents events, recorded with what the dispatcher
\* started for each; capabilities and payloads change the registry meanwhile.
NextOrder ==
    \/ \E t \in {0}, ev \in EventSets : deliver_ready(t, ev)
    \/ \E t \in {0} : deliver_timeout(t)
    \/ deliver_notify
    \/ External({"e1"})
    \/ Registry({0}, {0}, {"S1"})
    \/ Holders({"S1"}, BOOLEAN)
    \/ Nested({0}, {0}, {"e1"})
    \/ Return

SpecOrder == InitLoop /\ [][NextOrder]_vars

\* The loop thread and the external threads: readiness, timeouts and channel
\* messages from the reactor, registry operations and nested calls from what
\* they run.
NextLoop ==
    \/ \E t \in {0}, ev \in EventSets : reactor_ready(t, ev) /\ UNCHANGED logs
    \/ \E t \in {0} : reactor_timeout(t) /\ UNCHANGED logs
    \/ Channel(Envs)
    \/ Registry({0}, {0}, StateIds)
    \/ Holders(StateIds, BOOLEAN)
    \/ Nested({0}, {0}, Envs)
    \/ Return

SpecLoop == InitLoop /\ [][NextLoop]_vars

\* Every capability and payload invocation returns, and the reactor keeps
\* delivering the channel's messages between its other events.
FairLoop ==
    /\ SpecLoop
    /\ \A d \in 1..MaxDepth : SF_vars(Return /\ Len(stack) = d)
    /\ SF_vars(reactor_notify /\ UNCHANGED logs)

(* ------------------- claims on envelopes and delivery ------------------ *)

\* C3: the first call of an envelope's box executes the payload, once; however
\* often the box is called, the payload has executed exactly once, and a call
\* after the first raises no fault and changes nothing (but the count of calls).
C3_CallOnce ==
    /\ [](\A e \in Envs : ran[e] = (IF called[e] >= 1 THEN 1 ELSE 0))
    /\ [][\A e \in Envs :
            (called[e] >= 1 /\ called'[e] # called[e]) =>
               UNCHANGED <<core, loop, channel, at, holder, ran, history>>]_vars

\* The box of e1 was called MaxCalls times and its payload ran once.
C3_Witness ==
    /\ called["e1"] = MaxCalls
    /\ ran["e1"] = 1
    /\ holder["e1"] = "None"
    /\ ~panicked

\* The invocation the dispatcher owes a delivered event that resolved.
Resolved(d) == d.target # None
Expected(d) == Invocation(Unwrap(d.target), d.kind, d.token, d.events)
ExpectedLog ==
    LET r == SelectSeq(dlog, Resolved)
    IN  [i \in 1..Len(r) |-> Expected(r[i])]

\* C9: the invocations and payload executions the dispatcher has started are
\* exactly the delivered events that resolved when they were delivered, in
\* delivery order, each started in the step that delivered it; an event is
\* delivered only when nothing of the previous one is still running. It
\* fails: a delivered event that resolves to a state whose cell is borrowed
\* starts nothing, the dispatcher panics in borrow_mut.
C9_DispatchOrder ==
    /\ [](slog = ExpectedLog)
    /\ [][dlog' # dlog => (stack = <<>> /\ Len(stack') = Len(slog') - Len(slog))]_vars

\* C10: an envelope's payload executes at most once, and has executed once
\* when the envelope is dropped; it executes only inside notify, and that of
\* an envelope handed to the channel only in the step in which the reactor
\* hands it to notify on the idle loop thread; that step executes it
\* whatever the maps hold and leaves the core as it is; a
\* step of an external thread changes neither the core nor what the loop
\* thread runs; and every envelope in the channel is executed eventually, as
\* long as the loop thread lives.
C10_DeferredExecution ==
    /\ [](\A e \in Envs : ran[e] <= 1 /\ (at[e] = "dropped" => ran[e] = 1))
    /\ [][\A e \in Envs :
            ran'[e] # ran[e] =>
               /\ notify(e)
               /\ at[e] = "channel" =>
                    /\ Idle
                    /\ channel # <<>>
                    /\ Head(channel) = e
                    /\ channel' = Tail(channel)]_vars
    /\ [][reactor_notify => (ran'[Head(channel)] = 1 /\ UNCHANGED core)]_vars
    /\ [][(\E th \in Threads, e \in Envs : Closure_new(th, e) \/ send(th, e)) =>
             UNCHANGED <<core, loop>>]_vars
    /\ \A e \in Envs : (at[e] = "channel") ~> (ran[e] = 1 \/ panicked)

\* Both envelopes were handed over and executed, e2 first, with a state bound
\* and a token bound meanwhile.
C10_Witness ==
    /\ ran = [e \in Envs |-> 1]
    /\ at["e2"] = "dropped"
    /\ at["e1"] = "invoking"
    /\ stack = <<"e1">>
    /\ get_state(0) = Some("S2")
    /\ get_context(0) = Some(0)


(* ------------------------ claims on the registry ----------------------- *)

\* C11: remove_state(c) leaves every token entry as it is, those bound to c
\* included, so a token bound to c still resolves to c and, c having no state
\* any more, to no state; remove_context(t) leaves the states map as it is; a
\* dispatch on a token bound to a context without state invokes nothing and
\* changes nothing, and such a token resolves to a state again only by an
\* insert_state on its context or a new binding of the token.
C11_NoCascade ==
    /\ [][\A c \in Contexts :
            remove_state(c) =>
               /\ contexts' = contexts
               /\ \A t \in Tokens :
                    get_context(t) = Some(c) =>
                       (get_context(t)' = Some(c) /\ Resolve(t)' = None)]_vars
    /\ [][\A t \in Tokens : remove_context(t) => states' = states]_vars
    /\ [][\A t \in Tokens, c \in Contexts :
            (get_context(t) = Some(c) /\ get_state(c) = None) =>
               /\ ((\E ev \in EventSets : ready(t, ev)) \/ timeout(t)) =>
                     (invoked' = <<>> /\ UNCHANGED <<core, loop>>)
               /\ Resolve(t)' # None =>
                     ((\E st \in StateIds : insert_state(c, st))
                        \/ (\E c2 \in Contexts : insert_context(t, c2)))]_vars

\* The last call removed S1 and returned it; no context has a state, and both
\* tokens are bound as before, one of them to the context that lost its state.
C11_Witness ==
    /\ ret = ReturnState(Some("S1"))
    /\ states = EmptyMap
    /\ get_context(0) = Some(0)
    /\ get_context(1) = Some(1)
    /\ ~panicked


\* What a map holds for a key, read off the map itself.
Bound(map, key) == IF key \in DOMAIN map THEN Some(map[key]) ELSE None

\* C12: after insert_context(t, c), get_context(t) returns c; remove_context(t)
\* returns the context t was bound to, nothing if it was bound to none, and
\* after it get_context(t) returns nothing; get_context(t) returns what the
\* token map holds for t; the bindings of every other token stay as they are.
C12_TokenRoundTrip ==
    /\ [][\A t \in Tokens, c \in Contexts :
            insert_context(t, c) =>
               /\ get_context(t)' = Some(c)
               /\ \A u \in Tokens \ {t} : get_context(u)' = get_context(u)]_vars
    /\ [][\A t \in Tokens :
            remove_context(t) =>
               /\ ret' = ReturnContext(Bound(contexts, t))
               /\ get_context(t)' = None
               /\ \A u \in Tokens \ {t} : get_context(u)' = get_context(u)]_vars
    /\ [][\A t \in Tokens :
            call_get_context(t) =>
               (ret' = ReturnContext(Bound(contexts, t)) /\ contexts' = contexts)]_vars

\* A token was bound to context 1 and the last call, remove_context, returned
\* that context and left no token bound.
C12_Witness ==
    /\ ret = ReturnContext(Some(1))
    /\ contexts = EmptyMap
    /\ get_context(0) = None
    /\ get_context(1) = None

\* C13: insert_context(t, c2) returns the context t was bound to, nothing if t
\* was unbound; after it get_context(t) returns c2, the token map holds one
\* entry for t and the entries it held for the other tokens, and a further
\* insert_context on t returns c2.
C13_Rebind ==
    [][\A t \in Tokens, c2 \in Contexts :
         insert_context(t, c2) =>
            /\ ret' = ReturnContext(Bound(contexts, t))
            /\ get_context(t)' = Some(c2)
            /\ DOMAIN contexts' = (DOMAIN contexts) \cup {t}
            /\ Cardinality(DOMAIN contexts') =
                  Cardinality(DOMAIN contexts) + (IF t \in DOMAIN contexts THEN 0 ELSE 1)
            /\ insert_context_result(t)' = Some(c2)]_vars

\* The last call returned context 0 and both tokens are bound to context 1:
\* a token bound to context 0 was bound again, to context 1.
C13_Witness ==
    /\ ret = ReturnContext(Some(0))
    /\ get_context(0) = Some(1)
    /\ get_context(1) = Some(1)
    /\ Cardinality(DOMAIN contexts) = 2

\* C14: insert_state(c, h2) returns the handle c was bound to, nothing if
\* none, and after it get_state(c) returns h2; remove_state(c) returns the
\* handle c was bound to, nothing if none, and after it get_state(c) returns
\* nothing; get_state(c) returns what the states map holds for c; no registry
\* operation or lookup faults, whatever the maps hold and whatever is running.
C14_StateBinding ==
    /\ [][\A c \in Contexts, h2 \in StateIds :
            insert_state(c, h2) =>
               /\ ret' = ReturnState(Bound(states, c))
               /\ get_state(c)' = Some(h2)
               /\ \A d \in Contexts \ {c} : get_state(d)' = get_state(d)]_vars
    /\ [][\A c \in Contexts :
            remove_state(c) =>
               /\ ret' = ReturnState(Bound(states, c))
               /\ get_state(c)' = None
               /\ \A d \in Contexts \ {c} : get_state(d)' = get_state(d)]_vars
    /\ [][\A c \in Contexts :
            call_get_state(c) =>
               (ret' = ReturnState(Bound(states, c)) /\ states' = states)]_vars
    /\ [][Registry(Tokens, Contexts, StateIds) => (~panicked' /\ stack' = stack)]_vars

\* The last call returned S1 and both contexts are bound to S2: insert_state
\* replaced S1, which was bound to one of them, by S2.
C14_Witness ==
    /\ ret = ReturnState(Some("S1"))
    /\ get_state(0) = Some("S2")
    /\ get_state(1) = Some("S2")
    /\ ~panicked


\* C15: get_new_token changes the token counter and nothing else of the core,
\* get_new_context the context counter and nothing else; each counter is
\* determined by the seed and the number of calls of its own generator alone;
\* insert_context and remove_context change at most the token map,
\* insert_state and remove_state at most the states map, get_context and
\* get_state nothing.
C15_OwnComponent ==
    /\ [][get_new_token => UNCHANGED <<context_counter, contexts, states>>]_vars
    /\ [][get_new_context => UNCHANGED <<token_counter, contexts, states>>]_vars
    /\ [](tokCalls < CallCap => token_counter = tokCalls % Modulus)
    /\ [](ctxCalls < CallCap => context_counter = (seed + ctxCalls) % Modulus)
    /\ [][\A t \in Tokens :
            ((\E c \in Contexts : insert_context(t, c)) \/ remove_context(t)) =>
               UNCHANGED <<counters, states>>]_vars
    /\ [][\A c \in Contexts :
            ((\E st \in StateIds : insert_state(c, st)) \/ remove_state(c)) =>
               UNCHANGED <<counters, contexts>>]_vars
    /\ [][((\E t \in Tokens : call_get_context(t)) \/ (\E c \in Contexts : call_get_state(c))) =>
             UNCHANGED core]_vars

\* Two tokens and one context were generated from seed 1, and a token and a
\* state were bound: the token counter is at 2, the context counter at 2.
C15_Witness ==
    /\ seed = 1
    /\ tokCalls = 2
    /\ token_counter = 2
    /\ ctxCalls = 1
    /\ context_counter = 2
    /\ get_context(0) = Some(0)
    /\ get_state(0) = Some("S1")


\* C16: get_new_context returns the context counter's value whatever the
\* states map holds and leaves the map as it is, so the context it returns may
\* be bound to a state at that moment; insert_state on a context that is bound
\* to a state binds the new handle, returns the old one and raises no fault.
C16_WraparoundUnguarded ==
    /\ [][get_new_context =>
             /\ ctxLast' = Some(context_counter)
             /\ states' = states
             /\ ~panicked']_vars
    /\ [][generate_context => ctxLive' = Bound(states, context_counter)]_vars
    /\ [][\A c \in Contexts, st \in StateIds :
            insert_state(c, st) =>
               /\ get_state(c)' = Some(st)
               /\ ret' = ReturnState(Bound(states, c))
               /\ ~panicked']_vars

\* From seed 0, the call of get_new_context that followed 2^W others returned
\* context 0 again while S1 was bound to it, and the last call, insert_state
\* on context 0, replaced S1 by S2 and returned S1.
C16_Witness ==
    /\ seed = 0
    /\ ctxCalls = Modulus + 1
    /\ ctxLast = Some(0)
    /\ ctxLive = Some("S1")
    /\ ret = ReturnState(Some("S1"))
    /\ get_state(0) = Some("S2")
    /\ ~panicked


(* ------------------- specification of rebinding ------------------------ *)

\* The reactor delivers MaxEvents events, readiness on token 0 and timer
\* expiries on token 1, recorded with what the dispatcher started for each;
\* the bindings of the tokens to one context, and of the context to its state,
\* change meanwhile.
NextRebind ==
    \/ deliver_ready(0, "readable")
    \/ deliver_timeout(1)
    \/ Registry(Tokens, {0}, StateIds)
    \/ Holders({"S1"}, {TRUE})
    \/ Return

SpecRebind == InitLoop /\ [][NextRebind]_vars

(* --------------------- claims on the registry in dispatch --------------- *)

\* C17: the dispatcher runs a capability on its own clone of the handle, so a
\* remove_state on a context bound to a state whose capability is running
\* returns the handle, leaves the context without state and the invocation
\* running on that state, without fault; so does a remove_context called
\* while a capability runs, the dispatched token's included; the capability's
\* return pops the invocation and changes nothing of the registry; and a
\* later event for a token still bound to that context finds no state and
\* invokes nothing.
C17_SelfRemoval ==
    /\ [][\A c \in Contexts :
            (get_state(c) # None /\ Unwrap(get_state(c)) \in Running /\ remove_state(c)) =>
               /\ ~panicked'
               /\ stack' = stack
               /\ ret' = ReturnState(get_state(c))
               /\ get_state(c)' = None
               /\ \A t \in Tokens : get_context(t) = Some(c) => Resolve(t)' = None]_vars
    /\ [][\A t \in Tokens :
            (stack # <<>> /\ remove_context(t)) =>
               (~panicked' /\ stack' = stack /\ states' = states)]_vars
    /\ [][Return =>
             /\ ~panicked'
             /\ stack' = SubSeq(stack, 1, Len(stack) - 1)
             /\ UNCHANGED core]_vars
    /\ [][\A t \in Tokens :
            (Resolve(t) = None /\ ((\E ev \in EventSets : ready(t, ev)) \/ timeout(t))) =>
               (invoked' = <<>> /\ ~panicked' /\ stack' = stack)]_vars

\* S1's capability runs and the last call, remove_state, returned S1: the
\* capability removed its own state; no context has a state now, and token 0
\* is still bound to its context.
C17_Witness ==
    /\ stack = <<"S1">>
    /\ ret = ReturnState(Some("S1"))
    /\ states = EmptyMap
    /\ get_context(0) = Some(0)
    /\ ~panicked


\* The state the two maps, as they are now, lead token t to.
Now(t) ==
    IF t \in DOMAIN contexts /\ contexts[t] \in DOMAIN states
    THEN Some(states[contexts[t]])
    ELSE None

\* C18: an event on token t invokes the state the two maps lead t to in the
\* state in which it is dispatched, and nothing if they lead to none, and never
\* another state; after remove_context(t1) events on t1 reach no state, after
\* insert_context(t2, c) events on t2 reach the state of c, after
\* insert_state(c, S2) the events on every token bound to c reach S2, and
\* tokens bound to the same context reach the same state; the invocations
\* started are those of the delivered events as each resolved when it was
\* delivered. It fails: an event on a token the maps lead to a state whose
\* cell is borrowed reaches no state, the dispatcher panics in borrow_mut.
C18_ResolveAtDispatch ==
    /\ [][\A t \in Tokens :
            ((\E ev \in EventSets : deliver_ready(t, ev)) \/ deliver_timeout(t)) =>
               /\ Now(t) = None => invoked' = <<>>
               /\ Now(t) # None =>
                    /\ Len(invoked') = 1
                    /\ invoked'[1].state = Unwrap(Now(t))
                    /\ invoked'[1].token = Some(t)
                    /\ slog' = Append(slog, invoked'[1])]_vars
    /\ [][\A t1 \in Tokens :
            remove_context(t1) =>
               /\ Now(t1)' = None
               /\ \A u \in Tokens \ {t1} : Now(u)' = Now(u)]_vars
    /\ [][\A t2 \in Tokens, c \in Contexts :
            insert_context(t2, c) =>
               /\ Now(t2)' = Bound(states, c)
               /\ \A u \in Tokens \ {t2} : Now(u)' = Now(u)]_vars
    /\ [][\A c \in Contexts, st \in StateIds :
            insert_state(c, st) =>
               \A t \in Tokens : Bound(contexts, t) = Some(c) => Now(t)' = Some(st)]_vars
    /\ [](\A t1, t2 \in Tokens :
            (Bound(contexts, t1) # None /\ Bound(contexts, t1) = Bound(contexts, t2)) =>
               Now(t1) = Now(t2))
    /\ [](slog = ExpectedLog)

====
